---- MODULE Spec2Model ----
(***************************************************************************)
(* Entity Time Zone integration (custom_components/entity_tz).             *)
(*                                                                         *)
(* The module models                                                       *)
(*   - nominatim.py : the shared reverse-geocoding helper get_location,    *)
(*     its asyncio.Lock, the limit_rate background task and the shared     *)
(*     wait interval kept in hass.data;                                    *)
(*   - __init__.py  : async_setup_entry, update_from_entity and the        *)
(*     state-change listener, get_loc;                                     *)
(*   - helpers.py   : get_tz, the per-entry consumer counters and          *)
(*     ETZEntity attach / detach.                                          *)
(*                                                                         *)
(* Time is counted in ticks of 1.5 s, so INITIAL_WAIT = 1.5 s is one tick. *)
(* Coordinates are integers in units of 1e-5 degree, so rounding to 4      *)
(* decimals is rounding to the nearest multiple of 10.                     *)
(***************************************************************************)
EXTENDS Integers, Sequences, FiniteSets, TLC

\* nominatim.py:20  INITIAL_WAIT = 1.5 (seconds): one tick.
INITIAL_WAIT == 1

\* Bounds of the model.
MaxCalls == 2

MaxRateLimits == 2

MaxCancels == 1

MaxEvents == 1

MaxNotifs == 2

\* retry_after values a rate-limited response may carry, in ticks;
\* 0 stands for a response without retry_after (None or 0, both falsy).
RetryAfters == {0, 2, 3}

\* Latitude and longitude attribute values, in units of 1e-5 degree.
Lats == {12, 27}

Lngs == {31}

\* Rounding to 4 decimals: round(lat, 4) and f"{lat:.4f}" (no value of the
\* model lies exactly halfway).
Round4(x) == (x + 5) \div 10

\* The coordinates string get_loc builds: f"{lat:.4f}, {lng:.4f}".
Fmt(lat, lng) == <<Round4(lat), Round4(lng)>>

Keys == {Fmt(a, b) : a \in Lats, b \in Lngs}

Max(S) == CHOOSE x \in S : \A y \in S : y <= x

Min(S) == CHOOSE x \in S : \A y \in S : x <= y

Min2(a, b) == IF a <= b THEN a ELSE b

VARIABLES
  wait,        \* hass.data[NOMINATIM_DATA]["wait"]
  locked,      \* asyncio.Lock: held?
  waiters,     \* asyncio.Lock: FIFO of the calls suspended in lock.acquire()
  calls,       \* the get_location calls made so far (top-level invocations)
  timers,      \* sleeping limit_rate background tasks: ticks left, and the call
  relErr,      \* a limit_rate task called release() on a lock that was not held
  sinceDone,   \* ticks since the last reverse request ended (stops at lastWait)
  lastWait,    \* nom_data.wait of the frame whose reverse request ended last
  lastRetry,   \* retry_after of the last rate-limited response
  nRateLim,    \* rate-limited responses given so far
  nCancel      \* cancellations delivered so far

VARIABLES
  states,        \* hass.states: the current state of each source entity
  loc_available, \* ETZData.loc_available
  phase,         \* per entry: "none", "setup" (platforms being set up), "loaded",
                 \* "unloading" (platforms being unloaded), "unloaded"
  edata,         \* per entry: entry.data
  loc_users,     \* ETZData.loc_users
  tz_users,      \* ETZData.tz_users
  listening,     \* per entry: async_track_state_change_event is registered
  attached,      \* per entry: the ETZEntity objects added to hass
  tasks,         \* update_from_entity tasks that suspended, in creation order
  last,          \* per entry: the last broadcast sent on signal(entry)
  bcount,        \* per entry: the number of broadcasts sent on signal(entry)
  nnotif,        \* per entry: the update_from_entity runs that recomputed
  heard,         \* per entry: the events its sensor_state_listener received
  nEvents,       \* state-change events fired so far
  ent_loc,       \* per entry and entity: ETZEntity._ent_loc
  ent_tz         \* per entry and entity: ETZEntity._ent_tz, ETZSensor._tz

VARIABLES
  assert_failed  \* an assert of async_unload_entry found a counter not zero

VARIABLES
  looked,        \* the last get_tz / get_loc pair evaluated on a drawn state
  flow,          \* the last step of the config flow: its input and its result
  decided,       \* the last evaluation of update_from_entity's condition
  is_on          \* per entry and entity: the value the binary sensor renders,
                 \* and whether its update before the last one left a value

VARIABLES
  has_data,      \* DOMAIN in hass.data
  built,         \* how often each shared object was constructed or registered,
                 \* and whether etzd.zones has been assigned (zset)
  inits,         \* the init_etz_data calls made so far
  zstates,       \* hass.states: the current state of each zone entity
  zones,         \* ETZData.zones
  zruns,         \* the update_zones runs that suspended, in creation order
  tzjobs,        \* the executor jobs running _get_tz_from_loc
  tzcache,       \* the keys held by the lru_cache of _get_tz_from_loc, oldest first
  nquery,        \* per rounded pair: the calls of TimezoneFinder.timezone_at
  nzev,          \* bus events fired so far
  lastev         \* the last bus event fired, and whether a listener was there

geovars == <<wait, locked, waiters, calls, timers, relErr, sinceDone, lastWait,
             lastRetry, nRateLim, nCancel>>

ctlvars == <<states, loc_available, phase, edata, loc_users, tz_users,
             listening, attached, tasks, last, bcount, nnotif, heard, nEvents,
             ent_loc, ent_tz>>

auxvars == <<assert_failed>>

zonevars == <<has_data, built, inits, zstates, zones, zruns, tzjobs, tzcache,
              nquery, nzev, lastev>>

hlpvars == <<looked, flow, decided, is_on, has_data, built, inits, zstates,
             zones, zruns, tzjobs, tzcache, nquery, nzev, lastev>>

vars == <<wait, locked, waiters, calls, timers, relErr, sinceDone, lastWait,
          lastRetry, nRateLim, nCancel, states, loc_available, phase, edata,
          loc_users, tz_users, listening, attached, tasks, last, bcount, nnotif,
          heard, nEvents, ent_loc, ent_tz, assert_failed, looked, flow, decided,
          is_on, has_data, built, inits, zstates, zones, zruns, tzjobs, tzcache,
          nquery, nzev, lastev>>

--------------------------------------------------------------------------
(* nominatim.py                                                            *)

\* A frame is one activation of get_location: the wait of its private NomData
\* copy (nom_data.wait) and the await it is suspended in:
\*   "acquire"  await nom_data.lock.acquire()          (line 93, before try)
\*   "reverse"  await nom_data.nominatim.reverse(...)  (line 95, lock held)
\*   "retry"    await get_location(hass, coordinates)  (line 103, lock held)
FrameStates == {"acquire", "reverse", "retry"}

Pending(c) == calls[c].result = "pending"

Depth(c) == Len(calls[c].frames)

Top(c) == calls[c].frames[Depth(c)]

\* A lock whose acquire() never waits.
LockFreeBroken == TRUE

\* asyncio.Lock.acquire() returns at once only when the lock is not held.
LockFree == ~locked

\* A limit_rate that releases without sleeping.
limit_rate_nosleep(w) == 0

\* limit_rate: await asyncio.sleep(nom_data.wait) before the release.
limit_rate(w) == w

\* The except GeocoderRateLimited branch: nom_data.wait after it.
RaiseWait(cur, r) == IF r # 0 /\ r > cur THEN r ELSE cur

\* _save_nom_data runs only when the frame's own wait was raised; it then
\* stores the frame's copy.
SavedWait(stored, cur, r) == IF r # 0 /\ r > cur THEN r ELSE stored

\* The finally clauses run when the frames fs of call c are left, innermost
\* first: each starts a limit_rate task.  A frame suspended in lock.acquire()
\* has not entered try.
\* (UnwindNoFinally: a get_location without the finally clause.)
UnwindNoFinally(c, fs) == <<>>

RECURSIVE Unwind(_, _)
Unwind(c, fs) ==
  IF fs = <<>> THEN <<>>
  ELSE LET f == fs[Len(fs)]
           rest == Unwind(c, SubSeq(fs, 1, Len(fs) - 1))
       IN IF f.st = "acquire" THEN rest
          ELSE <<[left |-> limit_rate(f.w), call |-> c]>> \o rest

\* A new activation above the frames fs: it copies the shared data (wait w),
\* then takes the lock and sends the request, or queues for the lock.
Enter(fs, w, free) ==
  Append(fs, [w |-> w, st |-> IF free THEN "reverse" ELSE "acquire"])

\* get_location(hass, coordinates) called on behalf of `owner`.
StartCall(key, owner) ==
  /\ Len(calls) < MaxCalls
  /\ LET free == LockFree
         c == Len(calls) + 1
     IN /\ calls' = Append(calls,
               [key |-> key, owner |-> owner,
                frames |-> Enter(<<>>, wait, free),
                result |-> "pending",
                nreq |-> IF free THEN 1 ELSE 0,
                error |-> FALSE, limited |-> FALSE, rel |-> 0])
        /\ locked' = (locked \/ free)
        /\ waiters' = IF free THEN waiters ELSE Append(waiters, c)

\* A caller outside this integration (the helper is shared through hass.data).
DirectCall ==
  /\ \E key \in Keys : StartCall(key, "other")
  /\ UNCHANGED <<wait, timers, relErr, sinceDone, lastWait, lastRetry,
                 nRateLim, nCancel>>
  /\ UNCHANGED ctlvars
  /\ UNCHANGED auxvars
  /\ UNCHANGED hlpvars

\* The frames of c are left with a Location or with None; every finally runs.
Return(c, res) ==
  /\ calls' = [calls EXCEPT ![c].frames = <<>>, ![c].result = res,
                            ![c].error = (res = "none")]
  /\ timers' = timers \o Unwind(c, calls[c].frames)
  /\ sinceDone' = 0
  /\ lastWait' = Top(c).w

\* reverse() returns a Location.
ReverseOk(c) ==
  /\ c \in 1..Len(calls) /\ Pending(c) /\ Top(c).st = "reverse"
  /\ Return(c, "value")
  /\ UNCHANGED <<wait, locked, waiters, relErr, lastRetry, nRateLim, nCancel>>
  /\ UNCHANGED ctlvars
  /\ UNCHANGED auxvars
  /\ UNCHANGED hlpvars

\* reverse() raises a GeopyError that is not GeocoderRateLimited.
ReverseError(c) ==
  /\ c \in 1..Len(calls) /\ Pending(c) /\ Top(c).st = "reverse"
  /\ Return(c, "none")
  /\ UNCHANGED <<wait, locked, waiters, relErr, lastRetry, nRateLim, nCancel>>
  /\ UNCHANGED ctlvars
  /\ UNCHANGED auxvars
  /\ UNCHANGED hlpvars

\* reverse() raises GeocoderRateLimited with retry_after r: the wait is
\* raised and saved, and get_location is called again inside the handler.
ReverseRateLimited(c, r) ==
  /\ c \in 1..Len(calls) /\ Pending(c) /\ Top(c).st = "reverse"
  /\ nRateLim < MaxRateLimits
  /\ nRateLim' = nRateLim + 1
  /\ lastRetry' = r
  /\ LET d == Depth(c)
         w2 == RaiseWait(Top(c).w, r)
         stored == SavedWait(wait, Top(c).w, r)
         below == [calls[c].frames EXCEPT ![d] = [w |-> w2, st |-> "retry"]]
         free == LockFree
     IN /\ wait' = stored
        /\ calls' = [calls EXCEPT ![c].frames = Enter(below, stored, free),
                                  ![c].limited = TRUE,
                                  ![c].nreq = IF free THEN @ + 1 ELSE @]
        /\ waiters' = IF free THEN waiters ELSE Append(waiters, c)
        /\ lastWait' = w2
  /\ sinceDone' = 0
  /\ UNCHANGED <<locked, timers, relErr, nCancel>>
  /\ UNCHANGED ctlvars
  /\ UNCHANGED auxvars
  /\ UNCHANGED hlpvars

\* The task running call c is cancelled at the await it is suspended in.
CancelCall(c) ==
  /\ c \in 1..Len(calls) /\ Pending(c)
  /\ nCancel < MaxCancels
  /\ nCancel' = nCancel + 1
  /\ calls' = [calls EXCEPT ![c].frames = <<>>, ![c].result = "cancelled"]
  /\ timers' = timers \o Unwind(c, calls[c].frames)
  /\ waiters' = SelectSeq(waiters, LAMBDA x : x # c)
  /\ IF Top(c).st = "reverse"
       THEN sinceDone' = 0 /\ lastWait' = Top(c).w
       ELSE UNCHANGED <<sinceDone, lastWait>>
  /\ UNCHANGED <<wait, locked, relErr, lastRetry, nRateLim>>
  /\ UNCHANGED ctlvars
  /\ UNCHANGED auxvars
  /\ UNCHANGED hlpvars

RemoveAt(s, i) == SubSeq(s, 1, i - 1) \o SubSeq(s, i + 1, Len(s))

\* A limit_rate task wakes from its sleep and calls nom_data.lock.release();
\* the lock passes to the first waiter, whose reverse request then starts.
LimitRateWake(i) ==
  /\ i \in 1..Len(timers) /\ timers[i].left = 0
  /\ timers' = RemoveAt(timers, i)
  /\ IF ~locked
       THEN relErr' = TRUE /\ UNCHANGED <<locked, waiters, calls>>
       ELSE /\ UNCHANGED relErr
            /\ IF waiters = <<>>
                 THEN /\ locked' = FALSE
                      /\ calls' = [calls EXCEPT ![timers[i].call].rel = @ + 1]
                      /\ UNCHANGED waiters
                 ELSE LET h == Head(waiters)
                          d == Depth(h)
                          cs == [calls EXCEPT ![timers[i].call].rel = @ + 1]
                      IN /\ waiters' = Tail(waiters)
                         /\ calls' = [cs EXCEPT ![h].frames[d].st = "reverse",
                                                ![h].nreq = @ + 1]
                         /\ UNCHANGED locked
  /\ UNCHANGED <<wait, sinceDone, lastWait, lastRetry, nRateLim, nCancel>>
  /\ UNCHANGED ctlvars
  /\ UNCHANGED auxvars
  /\ UNCHANGED hlpvars

\* One tick (1.5 s) passes.
Tick ==
  /\ \/ sinceDone < lastWait
     \/ \E i \in 1..Len(timers) : timers[i].left > 0
  /\ timers' = [i \in 1..Len(timers) |->
                  [timers[i] EXCEPT !.left = IF @ > 0 THEN @ - 1 ELSE 0]]
  /\ sinceDone' = Min2(sinceDone + 1, lastWait)
  /\ UNCHANGED <<wait, locked, waiters, calls, relErr, lastWait, lastRetry,
                 nRateLim, nCancel>>
  /\ UNCHANGED ctlvars
  /\ UNCHANGED auxvars
  /\ UNCHANGED hlpvars

InFlight == {c \in 1..Len(calls) : Pending(c) /\ Top(c).st = "reverse"}

--------------------------------------------------------------------------
(* Values: Python None, STATE_UNAVAILABLE, a geopy Location, a tzinfo.     *)

NoneV == [t |-> "None"]

Unavail == [t |-> "unavailable"]

Location(key) == [t |-> "Location", key |-> key]

TzInfo(name) == [t |-> "tzinfo", name |-> name]

\* dt_util.get_default_time_zone(): the zone of the host's configuration.
DefaultTz == "Zone/A"

\* The offset from UTC, in hours, of the wall clock of a time zone now.
UtcOffset(name) == IF name = "Zone/A" THEN 0 ELSE 1

\* What timezone_at returns for a point no zone of the index covers.
NoZone == "None"

\* TimezoneFinder.timezone_at on rounded coordinates (the offline index).
timezone_at(rlat, rlng) ==
  IF rlat = 1 THEN "Zone/A" ELSE IF rlat = 3 THEN "Zone/B" ELSE NoZone

Entries == {"e1", "e2"}

\* entry.data: {entity_id} or {time_zone} (config_flow accepts one key only).
EntryData(e) ==
  IF e = "e1" THEN {[entity_id |-> "person.a"]}
  ELSE {[time_zone |-> "Zone/B"]}

\* The same, with a second entity-based entry on an entity without a state.
EntEntryData(e) ==
  IF e = "e2" THEN EntryData(e) \cup {[entity_id |-> "sensor.b"]}
  ELSE EntryData(e)

IsStatic(d) == "time_zone" \in DOMAIN d

IsEntity(d) == "entity_id" \in DOMAIN d

NoData == [none |-> TRUE]

\* The entities whose state-change events the model fires.
Ents == {"person.a"}

\* The zone entities of the host.
ZoneIds == {"zone.z"}

\* split_entity_id(entity_id)[0]
Domain(x) ==
  IF x = "person.a" THEN "person"
  ELSE IF x = "device_tracker.c" THEN "device_tracker"
  ELSE IF x \in ZoneIds THEN "zone"
  ELSE "sensor"

NoState == [t |-> "None"]

NoVal == -1

\* The latitude and longitude attributes a state may carry.
Positions ==
  {<<NoVal, NoVal>>} \cup {<<a, NoVal>> : a \in {Min(Lats)}}
     \cup {<<a, b>> : a \in Lats, b \in Lngs}

\* State objects: the state string and the two attributes read from them;
\* every other attribute is left out.
EntityStates ==
  {[t |-> "State", state |-> s, lat |-> p[1], lng |-> p[2]] :
     s \in {"home", "not_home"}, p \in Positions}

\* The ETZEntity classes of binary_sensor.py with their declared sources.
EntityKinds == {"diff_country", "diff_time"}

\* The ETZSensor classes of sensor.py; they declare no sources.
SensorKinds == {"time_zone", "local_time"}

AllKinds == EntityKinds \cup SensorKinds

Sources(k) ==
  IF k = "diff_country" THEN {"LOC", "HA_CFG"}
  ELSE IF k = "diff_time" THEN {"TZ", "HA_CFG"}
  ELSE {}

\* The coroutine object  get_tz(...)  that ETZSensor stores without awaiting.
Coro == [t |-> "coroutine"]

--------------------------------------------------------------------------
(* helpers.py: get_tz                                                      *)

\* _get_tz_from_loc(tzf, lat, lng) on rounded coordinates.
get_tz_from_loc(rlat, rlng) ==
  IF timezone_at(rlat, rlng) = NoZone THEN NoneV
  ELSE TzInfo(timezone_at(rlat, rlng))

\* A get_tz that checks the coordinates before the home state.
get_tz_coords_first(x, st) ==
  IF st = NoState THEN [k |-> "imm", v |-> Unavail]
  ELSE IF st.lat = NoVal \/ st.lng = NoVal THEN [k |-> "imm", v |-> Unavail]
  ELSE IF Domain(x) \in {"person", "device_tracker"} /\ st.state = "home"
    THEN [k |-> "imm", v |-> TzInfo(DefaultTz)]
  ELSE [k |-> "job", v |-> get_tz_from_loc(Round4(st.lat), Round4(st.lng))]

\* get_tz(hass, state).  k = "imm": returned without suspending;
\* k = "job": the result of the executor job it awaits.
get_tz(x, st) ==
  IF st = NoState THEN [k |-> "imm", v |-> Unavail]
  ELSE IF Domain(x) \in {"person", "device_tracker"} /\ st.state = "home"
    THEN [k |-> "imm", v |-> TzInfo(DefaultTz)]
  ELSE IF st.lat = NoVal \/ st.lng = NoVal THEN [k |-> "imm", v |-> Unavail]
  ELSE [k |-> "job", v |-> get_tz_from_loc(Round4(st.lat), Round4(st.lng))]

--------------------------------------------------------------------------
(* __init__.py                                                             *)

\* _get_location = alru_cache(...)(get_location): a finished call's result is
\* served from the cache, a running call for the same key is joined, and
\* otherwise get_location is called.  (The cache holds 8 keys per entry, more
\* than the model has; a cancelled call leaves the cache.)
CachedCalls(key) ==
  {c \in 1..Len(calls) : calls[c].key = key /\ calls[c].owner # "other"
                          /\ calls[c].result \in {"value", "none"}}

RunningCalls(key) ==
  {c \in 1..Len(calls) : calls[c].key = key /\ calls[c].owner # "other"
                          /\ calls[c].result = "pending"}

CallValue(c) == IF calls[c].result = "value" THEN Location(calls[c].key) ELSE NoneV

\* get_loc(hass, state): "imm" a value without suspending, "join" a running
\* call, or "start" a new get_location call.
get_loc(st) ==
  IF st = NoState THEN [k |-> "imm", v |-> Unavail]
  ELSE IF st.lat = NoVal \/ st.lng = NoVal THEN [k |-> "imm", v |-> Unavail]
  ELSE LET key == Fmt(st.lat, st.lng)
       IN IF CachedCalls(key) # {}
            THEN [k |-> "imm", v |-> CallValue(Max(CachedCalls(key)))]
          ELSE IF RunningCalls(key) # {}
            THEN [k |-> "join", c |-> Max(RunningCalls(key))]
          ELSE [k |-> "start", key |-> key]

\* An update_from_entity that recomputes on every notification.
TriggersUpdateAlways(x, old, new) == TRUE

\* A condition that takes a change to or from home for any domain.
TriggersUpdateAnyDomain(x, old, new) ==
  \/ new = NoState
  \/ old = NoState
  \/ (new.state = "home") # (old.state = "home")
  \/ new.lat # old.lat
  \/ new.lng # old.lng

\* The condition of update_from_entity (lines 96-105) on an event's states.
TriggersUpdate(x, old, new) ==
  \/ new = NoState
  \/ old = NoState
  \/ /\ Domain(x) \in {"person", "device_tracker"}
     /\ (new.state = "home") # (old.state = "home")
  \/ new.lat # old.lat
  \/ new.lng # old.lng

\* A location decision that ignores the consumer count.
UseLocAlways(e) == loc_available

\* if etzd.loc_available and etzd.loc_users[entry.entry_id]:
UseLoc(e) == loc_available /\ loc_users[e] > 0

\* if etzd.tz_users[entry.entry_id]:
UseTz(e) == tz_users[e] > 0

\* A signal name that does not depend on the entry.
SignalShared(e) == <<"entity_tz_entity_changed">>

\* signal(entry): f"{SIG_ENTITY_CHANGED}-{entry.entry_id}"
signal(e) == <<"entity_tz_entity_changed", e>>

\* The entities whose entity_changed(entity_loc, entity_tz) is connected to
\* the signal: ETZEntity connects it if it declares LOC or TZ.  ETZSensor
\* connects entity_changed(tz), which fails when called with two values and
\* stores nothing.
Receives(k) == k \in EntityKinds /\ Sources(k) \cap {"LOC", "TZ"} # {}

\* async_dispatcher_send(hass, signal(entry), entity_loc, entity_tz): every
\* callback connected to that signal name runs.
Broadcast(e, seq, loc, tz) ==
  /\ last' = [last EXCEPT ![e] = [seq |-> seq, loc |-> loc, tz |-> tz]]
  /\ bcount' = [bcount EXCEPT ![e] = @ + 1]
  /\ ent_loc' = [f \in Entries |-> [k \in AllKinds |->
                   IF signal(f) = signal(e) /\ k \in attached[f] /\ Receives(k)
                     THEN loc ELSE ent_loc[f][k]]]
  /\ ent_tz' = [f \in Entries |-> [k \in AllKinds |->
                  IF signal(f) = signal(e) /\ k \in attached[f] /\ Receives(k)
                    THEN tz ELSE ent_tz[f][k]]]

\* A task that has ended keeps only its place in the sequence.
DoneTask(rec, pc) ==
  [entry |-> rec.entry, ev |-> rec.ev, seq |-> rec.seq, cdiff |-> FALSE,
   new |-> NoState, pc |-> pc, loc |-> NoneV, tz |-> NoneV, call |-> 0]

\* update_from_entity from the time zone part on, entity_loc being known:
\* it suspends in get_tz's executor job or sends the broadcast and ends.
\* t is the task's place in tasks, 0 when it has not suspended before.
TzPart(rec, loc, t) ==
  LET e == rec.entry
      tzp == IF UseTz(e) THEN get_tz(edata[e].entity_id, rec.new)
                         ELSE [k |-> "imm", v |-> NoneV]
      susp == [rec EXCEPT !.pc = "tz", !.loc = loc, !.tz = tzp.v]
  IN IF tzp.k = "job"
       THEN /\ tasks' = IF t = 0 THEN Append(tasks, susp)
                                 ELSE [tasks EXCEPT ![t] = susp]
            /\ UNCHANGED <<last, bcount, ent_loc, ent_tz>>
       ELSE /\ tasks' = IF t = 0 THEN tasks
                                 ELSE [tasks EXCEPT ![t] = DoneTask(rec, "done")]
            /\ Broadcast(e, rec.seq, loc, tzp.v)

\* The body of update_from_entity once the condition holds, up to its first
\* suspension; lp is what get_loc does (or None without location users).
RunTriggered(e, rec, lp) ==
  IF lp.k = "start"
    THEN /\ StartCall(lp.key, e)
         /\ tasks' = Append(tasks, [rec EXCEPT !.call = Len(calls) + 1])
         /\ UNCHANGED <<last, bcount, ent_loc, ent_tz>>
  ELSE IF lp.k = "join"
    THEN /\ tasks' = Append(tasks, [rec EXCEPT !.call = lp.c])
         /\ UNCHANGED <<last, bcount, ent_loc, ent_tz, calls, locked, waiters>>
  ELSE /\ TzPart(rec, lp.v, 0)
       /\ UNCHANGED <<calls, locked, waiters>>

\* async_unload_entry has popped the entry's counters: reading them raises
\* KeyError, which ends update_from_entity.
Popped(e) == phase[e] = "unloaded"

\* update_from_entity(event) run from its start to its first suspension;
\* old and new are the event's states (old is None for the first update).
RunUpdate(e, ev, old, new) ==
  LET x == edata[e].entity_id
      rec == [entry |-> e, ev |-> ev, seq |-> nnotif[e] + 1,
              cdiff |-> (old # NoState /\ new # NoState
                           /\ (old.lat # new.lat \/ old.lng # new.lng)),
              new |-> new, pc |-> "loc", loc |-> NoneV, tz |-> NoneV, call |-> 0]
      lp == IF UseLoc(e) THEN get_loc(new) ELSE [k |-> "imm", v |-> NoneV]
  IN IF ~TriggersUpdate(x, old, new) \/ Popped(e)
       THEN UNCHANGED <<tasks, last, bcount, ent_loc, ent_tz, nnotif, calls,
                        locked, waiters>>
     ELSE /\ nnotif' = [nnotif EXCEPT ![e] = @ + 1]
          /\ RunTriggered(e, rec, lp)

\* dt_util.async_get_time_zone(tz_name)
async_get_time_zone(name) == TzInfo(name)

\* A static branch that sends "unavailable" as the location.
StaticPayloadUnavail(d) == [loc |-> Unavail, tz |-> async_get_time_zone(d.time_zone)]

\* What the static branch of async_setup_entry sends (lines 79-82).
StaticPayload(d) == [loc |-> NoneV, tz |-> async_get_time_zone(d.time_zone)]

\* async_setup_entry up to  await async_forward_entry_setups  (lines 65-77).
SetupBegin(e, d) ==
  /\ phase[e] = "none"
  /\ phase' = [phase EXCEPT ![e] = "setup"]
  /\ edata' = [edata EXCEPT ![e] = d]
  /\ loc_users' = [loc_users EXCEPT ![e] = 0]
  /\ tz_users' = [tz_users EXCEPT ![e] = 0]
  /\ UNCHANGED <<states, loc_available, listening, attached, tasks, last,
                 bcount, ent_loc, ent_tz, nnotif, heard, nEvents>>
  /\ UNCHANGED geovars
  /\ UNCHANGED auxvars
  /\ UNCHANGED hlpvars

\* async_setup_entry of a static entry, after the platforms (lines 79-82).
SetupStatic(e) ==
  /\ phase[e] = "setup" /\ IsStatic(edata[e])
  /\ phase' = [phase EXCEPT ![e] = "loaded"]
  /\ Broadcast(e, 0, StaticPayload(edata[e]).loc, StaticPayload(edata[e]).tz)
  /\ UNCHANGED <<states, loc_available, edata, loc_users, tz_users, listening,
                 attached, tasks, nnotif, heard, nEvents>>
  /\ UNCHANGED geovars
  /\ UNCHANGED auxvars
  /\ UNCHANGED hlpvars

\* hass.states.get(entity_id): None for an entity that has no state.
StateOf(x) == IF x \in Ents THEN states[x] ELSE NoState

\* async_setup_entry of an entity-based entry, after the platforms
\* (lines 84-129): the listener is registered and the first update runs.
SetupEntity(e) ==
  /\ phase[e] = "setup" /\ IsEntity(edata[e])
  /\ phase' = [phase EXCEPT ![e] = "loaded"]
  /\ listening' = [listening EXCEPT ![e] = TRUE]
  /\ RunUpdate(e, "first", NoState, StateOf(edata[e].entity_id))
  /\ UNCHANGED <<states, loc_available, edata, loc_users, tz_users, attached,
                 heard, nEvents>>
  /\ UNCHANGED <<wait, timers, relErr, sinceDone, lastWait, lastRetry,
                 nRateLim, nCancel>>
  /\ UNCHANGED auxvars
  /\ UNCHANGED hlpvars

\* The entries whose sensor_state_listener tracks entity x.
Listeners(x) ==
  {e \in Entries : listening[e] /\ IsEntity(edata[e]) /\ edata[e].entity_id = x}

\* A state-change event of entity x: sensor_state_listener of the entry that
\* tracks x starts update_from_entity(event).
StateChangeWithin(x, new, max) ==
  /\ nEvents < max
  /\ new # NoState \/ states[x] # NoState
  /\ nEvents' = nEvents + 1
  /\ states' = [states EXCEPT ![x] = new]
  /\ IF Listeners(x) # {}
       THEN LET e == CHOOSE e \in Listeners(x) : TRUE
            IN /\ heard' = [heard EXCEPT ![e] = @ + 1]
               /\ RunUpdate(e, "change", states[x], new)
       ELSE UNCHANGED <<tasks, last, bcount, ent_loc, ent_tz, nnotif, heard,
                        calls, locked, waiters>>
  /\ UNCHANGED <<loc_available, phase, edata, loc_users, tz_users, listening,
                 attached>>
  /\ UNCHANGED <<wait, timers, relErr, sinceDone, lastWait, lastRetry,
                 nRateLim, nCancel>>
  /\ UNCHANGED auxvars
  /\ UNCHANGED hlpvars

StateChange(x, new) == StateChangeWithin(x, new, MaxEvents)

\* await get_loc(...) resumes: the joined or started call has ended.
LocDone(t) ==
  /\ t \in 1..Len(tasks) /\ tasks[t].pc = "loc"
  /\ calls[tasks[t].call].result # "pending"
  /\ IF calls[tasks[t].call].result = "cancelled"
       THEN /\ tasks' = [tasks EXCEPT ![t] = DoneTask(tasks[t], "cancelled")]
            /\ UNCHANGED <<last, bcount, ent_loc, ent_tz>>
     ELSE IF Popped(tasks[t].entry)
       THEN /\ tasks' = [tasks EXCEPT ![t] = DoneTask(tasks[t], "failed")]
            /\ UNCHANGED <<last, bcount, ent_loc, ent_tz>>
       ELSE TzPart(tasks[t], CallValue(tasks[t].call), t)
  /\ UNCHANGED <<states, loc_available, phase, edata, loc_users, tz_users,
                 listening, attached, nnotif, heard, nEvents>>
  /\ UNCHANGED geovars
  /\ UNCHANGED auxvars
  /\ UNCHANGED hlpvars

\* await get_tz(...) resumes with the executor job's result, and
\* async_dispatcher_send follows.
TzDone(t) ==
  /\ t \in 1..Len(tasks) /\ tasks[t].pc = "tz"
  /\ tasks' = [tasks EXCEPT ![t] = DoneTask(tasks[t], "done")]
  /\ Broadcast(tasks[t].entry, tasks[t].seq, tasks[t].loc, tasks[t].tz)
  /\ UNCHANGED <<states, loc_available, phase, edata, loc_users, tz_users,
                 listening, attached, nnotif, heard, nEvents>>
  /\ UNCHANGED geovars
  /\ UNCHANGED auxvars
  /\ UNCHANGED hlpvars

\* ETZEntity.available (helpers.py lines 230-237), and _attr_available as
\* the async_update of the two sensors leaves it (sensor.py lines 95-102 and
\* 144-151): false only if _tz is None.
available(e, k) ==
  IF k \in EntityKinds
    THEN ~ \/ "LOC" \in Sources(k) /\ ent_loc[e][k] = Unavail
           \/ "TZ" \in Sources(k) /\ ent_tz[e][k] = Unavail
    ELSE ent_tz[e][k] # NoneV

\* What an entity renders: the sources an ETZEntity declares, and the time
\* zone for the two sensors (they render self._tz).
DependsOn(k) ==
  IF k \in SensorKinds THEN {"TZ"} ELSE Sources(k) \cap {"LOC", "TZ"}

--------------------------------------------------------------------------
(* get_tz and get_loc on arbitrary entities and states                     *)

\* The entities and states the two functions are evaluated on: every domain
\* get_tz tells apart, and states lacking either coordinate or both.
LookupIds == {"person.a", "device_tracker.c", "sensor.b", "zone.z"}

LookupStates ==
  EntityStates \cup
  {[t |-> "State", state |-> s, lat |-> NoVal, lng |-> b] :
     s \in {"home", "not_home"}, b \in Lngs}

NoLookup == [id |-> "none"]

NoDecision == [id |-> "none"]

\* Python None as a rendered value: the state is unknown.
Unknown == [t |-> "None"]

\* An entity that has not been updated yet: _attr_is_on is None.
NotRendered == [v |-> Unknown, was |-> Unknown, src |-> [t |-> "never"]]

\* _attr_is_on once async_update has computed it.
OnOff(b) == [t |-> "bool", on |-> b]

NoEvent == [type |-> "none"]

\* One evaluation of get_tz(hass, state) and get_loc(hass, state).
Lookup(x, st) ==
  /\ looked' = [id |-> x, st |-> st, tz |-> get_tz(x, st), loc |-> get_loc(st)]
  /\ UNCHANGED geovars
  /\ UNCHANGED ctlvars
  /\ UNCHANGED auxvars
  /\ UNCHANGED zonevars
  /\ UNCHANGED <<flow, decided, is_on>>

\* The states a state changed event may carry: any state string, with or
\* without coordinates.
TriggerStates ==
  {[t |-> "State", state |-> s, lat |-> p[1], lng |-> p[2]] :
     s \in {"home", "not_home", "work"},
     p \in {<<NoVal, NoVal>>} \cup {<<a, b>> : a \in Lats, b \in Lngs}}

\* sensor_state_listener and the test of update_from_entity on one event
\* (lines 90-105, 115-120): whether the event makes the entry recompute and
\* broadcast.
Decide(x, old, new) ==
  /\ decided' = [id |-> x, old |-> old, new |-> new,
                 triggers |-> TriggersUpdate(x, old, new)]
  /\ UNCHANGED geovars
  /\ UNCHANGED ctlvars
  /\ UNCHANGED auxvars
  /\ UNCHANGED zonevars
  /\ UNCHANGED <<looked, flow, is_on>>

\* The states the input entity moves through away from home: at a position
\* on land, or over open sea, where the index has no zone.
RenderStates ==
  {[t |-> "State", state |-> "not_home", lat |-> a, lng |-> b] :
     a \in Lats \cup {49}, b \in Lngs}

\* hass.config.country
HostCountry == "AA"

\* location.raw["address"]["country_code"] of the address found for a key.
country_code(key) == IF key[1] = 1 THEN "aa" ELSE "bb"

\* str.upper() on the country codes.
Upper(c) == IF c = "aa" THEN "AA" ELSE IF c = "bb" THEN "BB" ELSE c

\* The value of the source an ETZEntity of this kind declares.
Dep(e, k) == IF "LOC" \in Sources(k) THEN ent_loc[e][k] ELSE ent_tz[e][k]

\* A _sources_valid that leaves the previous value in place.
KeepValue(prev) == prev

\* setattr(self, "_attr_is_on", None) in _sources_valid (lines 294-297).
ClearValue(prev) == Unknown

\* The isinstance tests of _sources_valid (lines 299-302).
SourcesPresent(e, k) ==
  /\ "LOC" \in Sources(k) => ent_loc[e][k].t = "Location"
  /\ "TZ" \in Sources(k) => ent_tz[e][k].t = "tzinfo"

\* The value async_update computes from valid sources (binary_sensor.py
\* lines 46-49 and 68-71).
Rendered(e, k) ==
  IF k = "diff_country"
    THEN OnOff(Upper(country_code(ent_loc[e][k].key)) # HostCountry)
  ELSE OnOff(UtcOffset(ent_tz[e][k].name) # UtcOffset(DefaultTz))

\* async_update of a binary sensor (binary_sensor.py lines 40-51, 62-73) with
\* _sources_valid (helpers.py lines 288-304): _attr_is_on afterwards.
async_update(e, k, prev) ==
  IF ~available(e, k) THEN prev
  ELSE IF ~SourcesPresent(e, k) THEN ClearValue(prev)
  ELSE Rendered(e, k)

\* The update that async_schedule_update_ha_state(True) runs for an attached
\* binary sensor, after a broadcast or a core configuration update.
Update(e, k) ==
  /\ k \in attached[e]
  /\ is_on' = [is_on EXCEPT ![e][k] =
                 [v |-> async_update(e, k, @.v), was |-> @.v, src |-> Dep(e, k)]]
  /\ UNCHANGED geovars
  /\ UNCHANGED ctlvars
  /\ UNCHANGED auxvars
  /\ UNCHANGED zonevars
  /\ UNCHANGED <<looked, flow, decided>>

--------------------------------------------------------------------------
(* helpers.py: ETZEntity                                                   *)

\* A counter that is raised whatever the entity declares.
AddUserAlways(n, k, src) == n + 1

\* etzd.loc_users[...] += 1  /  etzd.tz_users[...] += 1  if the entity
\* declares the source (lines 252-259).
AddUser(n, k, src) == IF src \in Sources(k) THEN n + 1 ELSE n

\* A removal that leaves the counter alone.
RemoveUserNever(n, k, src) == n

\* etzd.loc_users[...] -= 1  /  etzd.tz_users[...] -= 1  if the entity
\* declares the source (lines 283-286).
RemoveUser(n, k, src) == IF src \in Sources(k) THEN n - 1 ELSE n

\* async_added_to_hass (lines 252-259); binary_sensor.async_setup_entry adds
\* the entities of an entity-based entry while the platforms are set up.
Attach(e, k) ==
  /\ phase[e] = "setup" /\ IsEntity(edata[e])
  /\ k \notin attached[e]
  /\ attached' = [attached EXCEPT ![e] = @ \cup {k}]
  /\ loc_users' = [loc_users EXCEPT ![e] = AddUser(@, k, "LOC")]
  /\ tz_users' = [tz_users EXCEPT ![e] = AddUser(@, k, "TZ")]
  /\ UNCHANGED <<states, loc_available, phase, edata, listening, tasks, last,
                 bcount, ent_loc, ent_tz, nnotif, heard, nEvents>>
  /\ UNCHANGED geovars
  /\ UNCHANGED auxvars
  /\ UNCHANGED hlpvars

\* async_will_remove_from_hass (lines 279-286); the entity object is gone.
Detach(e, k) ==
  /\ k \in attached[e]
  /\ attached' = [attached EXCEPT ![e] = @ \ {k}]
  /\ loc_users' = [loc_users EXCEPT ![e] = RemoveUser(@, k, "LOC")]
  /\ tz_users' = [tz_users EXCEPT ![e] = RemoveUser(@, k, "TZ")]
  /\ ent_loc' = [ent_loc EXCEPT ![e][k] = NoneV]
  /\ ent_tz' = [ent_tz EXCEPT ![e][k] = NoneV]
  /\ UNCHANGED <<states, loc_available, phase, edata, listening, tasks, last,
                 bcount, nnotif, heard, nEvents>>
  /\ UNCHANGED geovars
  /\ UNCHANGED auxvars
  /\ UNCHANGED hlpvars

\* sensor.py: ETZSensor.add_to_platform_start.  The constructor reads
\* entry.data[CONF_ENTITY_ID], so a static entry gets no sensor; the entity
\* touches no counter and stores the coroutine get_tz(...) unawaited.
SensorAttach(e, k) ==
  /\ phase[e] = "setup" /\ IsEntity(edata[e])
  /\ k \in SensorKinds /\ k \notin attached[e]
  /\ attached' = [attached EXCEPT ![e] = @ \cup {k}]
  /\ ent_tz' = [ent_tz EXCEPT ![e][k] = Coro]
  /\ UNCHANGED <<states, loc_available, phase, edata, loc_users, tz_users,
                 listening, tasks, last, bcount, nnotif, heard, nEvents, ent_loc>>
  /\ UNCHANGED geovars
  /\ UNCHANGED auxvars
  /\ UNCHANGED hlpvars

\* async_unload_entry up to  await async_unload_platforms  (lines 132-134):
\* the platforms then remove their entities (Detach).
UnloadBegin(e) ==
  /\ phase[e] = "loaded"
  /\ phase' = [phase EXCEPT ![e] = "unloading"]
  /\ UNCHANGED <<states, loc_available, edata, loc_users, tz_users, listening,
                 attached, tasks, last, bcount, nnotif, heard, nEvents, ent_loc,
                 ent_tz>>
  /\ UNCHANGED geovars
  /\ UNCHANGED auxvars
  /\ UNCHANGED hlpvars

\* An entry's pending update tasks are cancelled.
CancelTasks(e) ==
  [t \in 1..Len(tasks) |->
     IF tasks[t].entry = e /\ tasks[t].pc \in {"loc", "tz"}
       THEN DoneTask(tasks[t], "cancelled") ELSE tasks[t]]

\* async_unload_entry after the platforms (lines 136-141): the counters are
\* popped and asserted to be zero.  res is the platforms' result: when it is
\* true the host removes the entry's listener and cancels its tasks.
UnloadEnd(e, res) ==
  /\ phase[e] = "unloading" /\ attached[e] = {}
  /\ phase' = [phase EXCEPT ![e] = "unloaded"]
  /\ assert_failed' = (assert_failed \/ loc_users[e] # 0 \/ tz_users[e] # 0)
  /\ loc_users' = [loc_users EXCEPT ![e] = 0]
  /\ tz_users' = [tz_users EXCEPT ![e] = 0]
  /\ listening' = [listening EXCEPT ![e] = @ /\ ~res]
  /\ tasks' = IF res THEN CancelTasks(e) ELSE tasks
  /\ UNCHANGED <<states, loc_available, edata, attached, last, bcount, nnotif,
                 heard, nEvents, ent_loc, ent_tz>>
  /\ UNCHANGED geovars
  /\ UNCHANGED hlpvars

--------------------------------------------------------------------------
(* config_flow.py                                                          *)

\* etz_data(hass).tzs: zoneinfo.available_timezones().
tzs == {"Zone/A", "Zone/B"}

\* tz.title().replace(" ", "_") on the texts a user may type.
TitleSuffix(tz) ==
  IF tz = "b" THEN "B"
  ELSE IF tz = "zone/b" THEN "Zone/B"
  ELSE IF tz = "nowhere" THEN "Nowhere"
  ELSE tz

\* tz_name.endswith(tz_suffix)
EndsWith(name, suffix) ==
  \/ suffix = name
  \/ name = "Zone/A" /\ suffix = "A"
  \/ name = "Zone/B" /\ suffix = "B"

\* A user input: None (the form is opened) or a dict with some of the two
\* keys of the form's schema.
NoInput == [t |-> "None"]

TypedZones == {"Zone/B", "b", "zone/b", "nowhere"}

UserInputs ==
  {NoInput, <<>>}
    \cup {[entity_id |-> x] : x \in {"person.a", "sensor.b"}}
    \cup {[time_zone |-> z] : z \in TypedZones}
    \cup {[entity_id |-> x, time_zone |-> z] :
            x \in {"person.a", "sensor.b"}, z \in TypedZones}

\* A flow that accepts any number of keys.
OneKeyAlways(ui) == TRUE

\* len(user_input) == 1 (line 81)
OneKey(ui) == Cardinality(DOMAIN ui) = 1

ShowForm(errors) == [type |-> "form", errors |-> errors]

\* async_step_user(user_input), lines 80-101 and 124-126; the title of the
\* entry is left out.  A text that is no time zone name is replaced by the
\* name it is a suffix of; if there is none, cv.time_zone raises.
async_step_user(ui) ==
  IF ui = NoInput THEN ShowForm({})
  ELSE IF ~OneKey(ui) THEN ShowForm({"specify_one"})
  ELSE IF "time_zone" \in DOMAIN ui
    THEN IF ui.time_zone \in tzs THEN [type |-> "create_entry", data |-> ui]
         ELSE LET found == {n \in tzs : EndsWith(n, TitleSuffix(ui.time_zone))}
              IN IF found = {} THEN [type |-> "raised"]
                 ELSE [type |-> "create_entry",
                       data |-> [ui EXCEPT !.time_zone = CHOOSE n \in found : TRUE]]
  ELSE [type |-> "create_entry", data |-> ui]

NoFlow == [input |-> "none"]

\* One step of the config flow on a user input.
StepUser(ui) ==
  /\ flow' = [input |-> ui, result |-> async_step_user(ui)]
  /\ UNCHANGED geovars
  /\ UNCHANGED ctlvars
  /\ UNCHANGED auxvars
  /\ UNCHANGED zonevars
  /\ UNCHANGED <<looked, decided, is_on>>

--------------------------------------------------------------------------
(* helpers.py: init_etz_data, update_zones, _get_tz_from_loc               *)

MaxInits == 2

MaxZoneEvents == 2

\* functools.lru_cache used without arguments keeps 128 entries.
LRU_MAXSIZE == 128

\* Latitudes of the zones: 12 and 14 round to the same fourth decimal.
ZoneLats == Lats \cup {14}

ZoneStates ==
  {[t |-> "State", state |-> "zoning", lat |-> p[1], lng |-> p[2]] :
     p \in {<<NoVal, NoVal>>} \cup (ZoneLats \X Lngs)}

\* hass.states.async_all(ZONE_DOMAIN), in the order the comprehension reads.
ZoneOrder == <<"zone.z">>

\* round(lat, 4), round(lng, 4): the arguments the cache is keyed by.
TzKey(st) == <<Round4(st.lat), Round4(st.lng)>>

TzKeys == {<<Round4(a), Round4(b)>> : a \in ZoneLats, b \in Lngs}

\* not_ha_tz(tz): a tzinfo whose wall clock differs from the host's now.
not_ha_tz(v) == v.t = "tzinfo" /\ UtcOffset(v.name) # UtcOffset(DefaultTz)

\* The list comprehension of update_zones from zone i on: it goes on while
\* get_tz returns without suspending and stops at the zone whose get_tz
\* awaits an executor job, or past the last zone.
RECURSIVE Scan(_, _, _)
Scan(snap, i, acc) ==
  IF i > Len(ZoneOrder) THEN [i |-> i, acc |-> acc]
  ELSE LET z == ZoneOrder[i]
           r == get_tz(z, snap[z])
       IN IF r.k = "job" THEN [i |-> i, acc |-> acc]
          ELSE Scan(snap, i + 1, IF not_ha_tz(r.v) THEN acc \cup {z} ELSE acc)

DoneRun == [pc |-> "done"]

DoneJob == [st |-> "done"]

\* hass.bus.async_listen(EVENT_CORE_CONFIG_UPDATE, update_zones) and
\* hass.bus.async_listen(EVENT_STATE_CHANGED, update_zones, zones_filter).
Registered(b) == [b EXCEPT !.cfg = @ + 1, !.st = @ + 1]

\* update_zones going on from zone i with the list acc: run r (0: a run that
\* starts) over the snapshot snap, awaited by init call owner (0: started by
\* the bus).  It submits the next executor job, or assigns etzd.zones and
\* ends; init_etz_data then registers the two listeners and returns.
Continue(r, snap, i, acc, owner, jobs, b) ==
  LET sc == Scan(snap, i, acc)
      fin == sc.i > Len(ZoneOrder)
      rec == IF fin THEN DoneRun
             ELSE [pc |-> "job", snap |-> snap, i |-> sc.i, acc |-> sc.acc,
                   owner |-> owner, job |-> Len(jobs) + 1]
  IN /\ zruns' = IF r = 0 THEN (IF fin THEN zruns ELSE Append(zruns, rec))
                 ELSE [zruns EXCEPT ![r] = rec]
     /\ tzjobs' = IF fin THEN jobs
                  ELSE Append(jobs, [st |-> "queued",
                                     key |-> TzKey(snap[ZoneOrder[sc.i]])])
     /\ zones' = IF fin THEN sc.acc ELSE zones
     /\ inits' = IF owner = 0 THEN inits
                 ELSE [inits EXCEPT ![owner].pc = IF fin THEN "done" ELSE "zones"]
     /\ built' = IF ~fin THEN b
                 ELSE IF owner > 0 THEN Registered([b EXCEPT !.zset = TRUE])
                 ELSE [b EXCEPT !.zset = TRUE]

\* An init_etz_data without the guard of lines 125-126.
AlreadyInitialisedNever == FALSE

\* DOMAIN in hass.data (line 125).
AlreadyInitialised == has_data

\* init_etz_data up to its first await (lines 125-141), called by
\* async_setup or by a step of the config flow.  init_nominatim constructs
\* the client and the lock unless the shared data is there already; ok is
\* the outcome of its check of data that is there.
InitCall(ok) ==
  /\ Len(inits) < MaxInits
  /\ IF AlreadyInitialised
       THEN /\ inits' = Append(inits,
                 [pc |-> "returned",
                  early |-> \E i \in 1..Len(inits) : inits[i].pc \in {"exec", "zones"}])
            /\ UNCHANGED <<has_data, built, loc_available>>
       ELSE /\ has_data' = TRUE
            /\ built' = [built EXCEPT !.data = @ + 1,
                                      !.nom = IF @ = 0 THEN 1 ELSE @]
            /\ loc_available' = (built.nom = 0 \/ ok)
            /\ inits' = Append(inits, [pc |-> "exec", early |-> FALSE])
  /\ UNCHANGED <<zstates, zones, zruns, tzjobs, tzcache, nquery, nzev, lastev>>
  /\ UNCHANGED <<states, phase, edata, loc_users, tz_users, listening, attached,
                 tasks, last, bcount, nnotif, heard, nEvents, ent_loc, ent_tz>>
  /\ UNCHANGED geovars
  /\ UNCHANGED auxvars
  /\ UNCHANGED <<looked, flow, decided, is_on>>

\* The executor job init_tz_data has ended (line 141): the index is built,
\* and init_etz_data goes on into  await update_zones()  (line 167).
InitTzData(i) ==
  /\ i <= Len(inits) /\ inits[i].pc = "exec"
  /\ Continue(0, zstates, 1, {}, i, tzjobs, [built EXCEPT !.tzf = @ + 1])
  /\ UNCHANGED <<has_data, zstates, tzcache, nquery, nzev, lastev>>
  /\ UNCHANGED geovars
  /\ UNCHANGED ctlvars
  /\ UNCHANGED auxvars
  /\ UNCHANGED <<looked, flow, decided, is_on>>

\* A filter that lets every state changed event through.
zones_filter_all(x) == TRUE

\* zones_filter (lines 157-165): the event is for an entity of the zone
\* domain.
zones_filter(x) == Domain(x) = "zone"

\* A zone's state changes; the state-changed listener, once registered,
\* starts update_zones (the event has data).
ZoneStateChanged(z, new) ==
  /\ nzev < MaxZoneEvents
  /\ new # zstates[z]
  /\ nzev' = nzev + 1
  /\ lastev' = [type |-> "state", id |-> z, heard |-> built.st > 0]
  /\ zstates' = [zstates EXCEPT ![z] = new]
  /\ IF built.st > 0 /\ zones_filter(z)
       THEN Continue(0, [zstates EXCEPT ![z] = new], 1, {}, 0, tzjobs, built)
       ELSE UNCHANGED <<zruns, tzjobs, zones, inits, built>>
  /\ UNCHANGED <<has_data, tzcache, nquery>>
  /\ UNCHANGED geovars
  /\ UNCHANGED ctlvars
  /\ UNCHANGED auxvars
  /\ UNCHANGED <<looked, flow, decided, is_on>>

\* EVENT_STATE_CHANGED for an entity that is not a zone: the bus calls
\* update_zones only if zones_filter lets the event through (line 169).
OtherStateChanged(x) ==
  /\ nzev < MaxZoneEvents
  /\ nzev' = nzev + 1
  /\ lastev' = [type |-> "state", id |-> x, heard |-> built.st > 0]
  /\ IF built.st > 0 /\ zones_filter(x)
       THEN Continue(0, zstates, 1, {}, 0, tzjobs, built)
       ELSE UNCHANGED <<zruns, tzjobs, zones, inits, built>>
  /\ UNCHANGED <<has_data, zstates, tzcache, nquery>>
  /\ UNCHANGED geovars
  /\ UNCHANGED ctlvars
  /\ UNCHANGED auxvars
  /\ UNCHANGED <<looked, flow, decided, is_on>>

\* EVENT_CORE_CONFIG_UPDATE; an event without data is ignored (line 148).
CoreConfigUpdate(empty) ==
  /\ nzev < MaxZoneEvents
  /\ nzev' = nzev + 1
  /\ lastev' = [type |-> "config", empty |-> empty, heard |-> built.cfg > 0]
  /\ IF built.cfg > 0 /\ ~empty
       THEN Continue(0, zstates, 1, {}, 0, tzjobs, built)
       ELSE UNCHANGED <<zruns, tzjobs, zones, inits, built>>
  /\ UNCHANGED <<has_data, zstates, tzcache, nquery>>
  /\ UNCHANGED geovars
  /\ UNCHANGED ctlvars
  /\ UNCHANGED auxvars
  /\ UNCHANGED <<looked, flow, decided, is_on>>

\* The run that awaits job j.
RunOf(j) == CHOOSE r \in 1..Len(zruns) : zruns[r].pc = "job" /\ zruns[r].job = j

\* The job's result reaches the run that awaits it, which goes on.
Resume(j, jobs) ==
  LET r == RunOf(j)
      run == zruns[r]
      z == ZoneOrder[run.i]
      v == get_tz(z, run.snap[z]).v
  IN Continue(r, run.snap, run.i + 1,
              IF not_ha_tz(v) THEN run.acc \cup {z} ELSE run.acc,
              run.owner, jobs, built)

InCache(key) == \E n \in 1..Len(tzcache) : tzcache[n] = key

\* A cache hit makes the key the most recently used one.
Touch(key) ==
  LET rest == SelectSeq(tzcache, LAMBDA k : k # key) IN Append(rest, key)

\* The result of a miss is stored, dropping the least recently used key of a
\* full cache; a key another thread stored meanwhile is left as it is.
Store(key) ==
  IF InCache(key) THEN tzcache
  ELSE IF Len(tzcache) >= LRU_MAXSIZE THEN Append(Tail(tzcache), key)
  ELSE Append(tzcache, key)

\* An executor thread calls the cached _get_tz_from_loc (line 116): a hit
\* returns the stored result, a miss goes into the function, which queries
\* the index (line 90).
JobStart(j) ==
  /\ j <= Len(tzjobs) /\ tzjobs[j].st = "queued"
  /\ IF InCache(tzjobs[j].key)
       THEN /\ tzcache' = Touch(tzjobs[j].key)
            /\ Resume(j, [tzjobs EXCEPT ![j] = DoneJob])
            /\ UNCHANGED nquery
       ELSE /\ tzjobs' = [tzjobs EXCEPT ![j].st = "running"]
            /\ nquery' = [nquery EXCEPT ![tzjobs[j].key] = @ + 1]
            /\ UNCHANGED <<tzcache, zruns, zones, inits, built>>
  /\ UNCHANGED <<has_data, zstates, nzev, lastev>>
  /\ UNCHANGED geovars
  /\ UNCHANGED ctlvars
  /\ UNCHANGED auxvars
  /\ UNCHANGED <<looked, flow, decided, is_on>>

\* The function returns: the wrapper stores the result, and the run goes on.
JobEnd(j) ==
  /\ j <= Len(tzjobs) /\ tzjobs[j].st = "running"
  /\ tzcache' = Store(tzjobs[j].key)
  /\ Resume(j, [tzjobs EXCEPT ![j] = DoneJob])
  /\ UNCHANGED <<has_data, zstates, nquery, nzev, lastev>>
  /\ UNCHANGED geovars
  /\ UNCHANGED ctlvars
  /\ UNCHANGED auxvars
  /\ UNCHANGED <<looked, flow, decided, is_on>>

\* The zones update_zones is to keep: those whose time zone, from their
\* current coordinates, is not the host's.
ExactZones ==
  {z \in ZoneIds : /\ zstates[z].lat # NoVal /\ zstates[z].lng # NoVal
                   /\ not_ha_tz(get_tz_from_loc(Round4(zstates[z].lat),
                                                Round4(zstates[z].lng)))}

--------------------------------------------------------------------------

\* hass.data after init_nominatim and init_etz_data, no entry set up yet; the
\* source entity may or may not have a state already.
Init ==
  /\ wait = INITIAL_WAIT
  /\ locked = FALSE
  /\ waiters = <<>>
  /\ calls = <<>>
  /\ timers = <<>>
  /\ relErr = FALSE
  /\ sinceDone = 0
  /\ lastWait = 0
  /\ lastRetry = 0
  /\ nRateLim = 0
  /\ nCancel = 0
  /\ states \in [Ents -> EntityStates \cup {NoState}]
  /\ loc_available \in BOOLEAN
  /\ phase = [e \in Entries |-> "none"]
  /\ edata = [e \in Entries |-> NoData]
  /\ loc_users = [e \in Entries |-> 0]
  /\ tz_users = [e \in Entries |-> 0]
  /\ listening = [e \in Entries |-> FALSE]
  /\ attached = [e \in Entries |-> {}]
  /\ tasks = <<>>
  /\ last = [e \in Entries |-> [seq |-> 0, loc |-> NoneV, tz |-> NoneV]]
  /\ bcount = [e \in Entries |-> 0]
  /\ nnotif = [e \in Entries |-> 0]
  /\ heard = [e \in Entries |-> 0]
  /\ nEvents = 0
  /\ ent_loc = [e \in Entries |-> [k \in AllKinds |-> NoneV]]
  /\ ent_tz = [e \in Entries |-> [k \in AllKinds |-> NoneV]]
  /\ assert_failed = FALSE
  /\ looked = NoLookup
  /\ flow = NoFlow
  /\ decided = NoDecision
  /\ is_on = [e \in Entries |-> [k \in EntityKinds |-> NotRendered]]
  /\ has_data = TRUE
  /\ built = [data |-> 1, nom |-> 1, tzf |-> 1, cfg |-> 1, st |-> 1,
              zset |-> TRUE]
  /\ inits = <<>>
  /\ zstates = [z \in ZoneIds |->
                  [t |-> "State", state |-> "zoning", lat |-> Min(Lats),
                   lng |-> Min(Lngs)]]
  /\ zones = {}
  /\ zruns = <<>>
  /\ tzjobs = <<>>
  /\ tzcache = <<<<Round4(Min(Lats)), Round4(Min(Lngs))>>>>
  /\ nquery = [k \in TzKeys |->
                 IF k = <<Round4(Min(Lats)), Round4(Min(Lngs))>> THEN 1 ELSE 0]
  /\ nzev = 0
  /\ lastev = NoEvent

\* The host before the integration is loaded: nothing is in hass.data, but
\* for the shared geocoder data another integration may have saved.
HelperInit ==
  /\ wait = INITIAL_WAIT
  /\ locked = FALSE
  /\ waiters = <<>>
  /\ calls = <<>>
  /\ timers = <<>>
  /\ relErr = FALSE
  /\ sinceDone = 0
  /\ lastWait = 0
  /\ lastRetry = 0
  /\ nRateLim = 0
  /\ nCancel = 0
  /\ states = [x \in Ents |-> NoState]
  /\ loc_available = FALSE
  /\ phase = [e \in Entries |-> "none"]
  /\ edata = [e \in Entries |-> NoData]
  /\ loc_users = [e \in Entries |-> 0]
  /\ tz_users = [e \in Entries |-> 0]
  /\ listening = [e \in Entries |-> FALSE]
  /\ attached = [e \in Entries |-> {}]
  /\ tasks = <<>>
  /\ last = [e \in Entries |-> [seq |-> 0, loc |-> NoneV, tz |-> NoneV]]
  /\ bcount = [e \in Entries |-> 0]
  /\ nnotif = [e \in Entries |-> 0]
  /\ heard = [e \in Entries |-> 0]
  /\ nEvents = 0
  /\ ent_loc = [e \in Entries |-> [k \in AllKinds |-> NoneV]]
  /\ ent_tz = [e \in Entries |-> [k \in AllKinds |-> NoneV]]
  /\ assert_failed = FALSE
  /\ looked = NoLookup
  /\ flow = NoFlow
  /\ decided = NoDecision
  /\ is_on = [e \in Entries |-> [k \in EntityKinds |-> NotRendered]]
  /\ has_data = FALSE
  /\ \E n \in 0..1 :
        built = [data |-> 0, nom |-> n, tzf |-> 0, cfg |-> 0, st |-> 0,
                 zset |-> FALSE]
  /\ inits = <<>>
  /\ zstates \in [ZoneIds -> ZoneStates]
  /\ zones = {}
  /\ zruns = <<>>
  /\ tzjobs = <<>>
  /\ tzcache = <<>>
  /\ nquery = [k \in TzKeys |-> 0]
  /\ nzev = 0
  /\ lastev = NoEvent

\* The geocoding helper with arbitrary callers.
GeoNext ==
  \/ DirectCall
  \/ \E c \in 1..MaxCalls : ReverseOk(c)
  \/ \E c \in 1..MaxCalls : ReverseError(c)
  \/ \E c \in 1..MaxCalls : \E r \in RetryAfters : ReverseRateLimited(c, r)
  \/ \E c \in 1..MaxCalls : CancelCall(c)
  \/ \E i \in 1..MaxCalls : LimitRateWake(i)
  \/ Tick

GeoSpec == Init /\ [][GeoNext]_vars

\* The integration: entries, their update tasks and the geocoding helper.
\* Its get_location calls run in tasks of the cache wrapper, which a
\* cancelled update task does not cancel, so no CancelCall here.
Next ==
  \/ \E e \in Entries : \E d \in EntryData(e) : SetupBegin(e, d)
  \/ \E e \in Entries : SetupStatic(e)
  \/ \E e \in Entries : SetupEntity(e)
  \/ \E e \in Entries : \E k \in EntityKinds : Attach(e, k)
  \/ \E e \in Entries : \E k \in EntityKinds : Detach(e, k)
  \/ \E x \in Ents : \E new \in EntityStates \cup {NoState} : StateChange(x, new)
  \/ \E t \in 1..(MaxEvents + 1) : LocDone(t)
  \/ \E t \in 1..(MaxEvents + 1) : TzDone(t)
  \/ \E c \in 1..MaxCalls : ReverseOk(c)
  \/ \E c \in 1..MaxCalls : ReverseError(c)
  \/ \E c \in 1..MaxCalls : \E r \in RetryAfters : ReverseRateLimited(c, r)
  \/ \E i \in 1..MaxCalls : LimitRateWake(i)
  \/ Tick

Spec == Init /\ [][Next]_vars

\* The life of the entries and of their derived entities: setup, the first
\* update, the entities of both platforms, unload.
EntNext ==
  \/ \E e \in Entries : \E d \in EntEntryData(e) : SetupBegin(e, d)
  \/ \E e \in Entries : SetupStatic(e)
  \/ \E e \in Entries : SetupEntity(e)
  \/ \E e \in Entries : \E k \in EntityKinds : Attach(e, k)
  \/ \E e \in Entries : \E k \in SensorKinds : SensorAttach(e, k)
  \/ \E e \in Entries : \E k \in AllKinds : Detach(e, k)
  \/ \E t \in 1..(MaxEvents + 1) : LocDone(t)
  \/ \E t \in 1..(MaxEvents + 1) : TzDone(t)
  \/ \E c \in 1..MaxCalls : ReverseOk(c)
  \/ \E c \in 1..MaxCalls : ReverseError(c)
  \/ \E e \in Entries : UnloadBegin(e)
  \/ \E e \in Entries : \E res \in BOOLEAN : UnloadEnd(e, res)

EntSpec == Init /\ [][EntNext]_vars

\* get_tz and get_loc as functions of the entity and its state.
LookupNext ==
  \E x \in LookupIds : \E st \in LookupStates \cup {NoState} : Lookup(x, st)

LookupSpec == Init /\ [][LookupNext]_vars

\* The decision of update_from_entity over every event of an input entity.
TriggerNext ==
  \E x \in LookupIds : \E old \in TriggerStates \cup {NoState} :
     \E new \in TriggerStates \cup {NoState} : Decide(x, old, new)

TriggerSpec == Init /\ [][TriggerNext]_vars

\* The entries that get binary sensors: async_setup_entry of the platform
\* returns at once for a static entry (binary_sensor.py lines 27-29).
RenderEntries == {e \in Entries : \E d \in EntryData(e) : IsEntity(d)}

\* The binary sensors of an entry: broadcasts and the updates they schedule.
RenderNext ==
  \/ \E e \in RenderEntries : \E d \in EntryData(e) : SetupBegin(e, d)
  \/ \E e \in RenderEntries : SetupEntity(e)
  \/ \E e \in RenderEntries : \E k \in EntityKinds : Attach(e, k)
  \/ \E x \in Ents : \E new \in RenderStates \cup {NoState} : StateChange(x, new)
  \/ \E t \in 1..(MaxEvents + 1) : LocDone(t)
  \/ \E t \in 1..(MaxEvents + 1) : TzDone(t)
  \/ \E c \in 1..MaxCalls : ReverseOk(c)
  \/ \E c \in 1..MaxCalls : ReverseError(c)
  \/ \E i \in 1..MaxCalls : LimitRateWake(i)
  \/ Tick
  \/ \E e \in RenderEntries : \E k \in EntityKinds : Update(e, k)

RenderSpec == Init /\ [][RenderNext]_vars

\* The shared data of the integration: initialisation, the zone list and
\* the cached time zone lookups.
HelperNext ==
  \/ \E ok \in BOOLEAN : InitCall(ok)
  \/ \E i \in 1..MaxInits : InitTzData(i)
  \/ \E z \in ZoneIds : \E new \in ZoneStates : ZoneStateChanged(z, new)
  \/ \E x \in LookupIds \ ZoneIds : OtherStateChanged(x)
  \/ \E empty \in BOOLEAN : CoreConfigUpdate(empty)
  \/ \E j \in 1..(MaxInits + MaxZoneEvents) : JobStart(j)
  \/ \E j \in 1..(MaxInits + MaxZoneEvents) : JobEnd(j)

HelperSpec == HelperInit /\ [][HelperNext]_vars

\* One entry and several notifications in succession, each with its own
\* update task; the geocoder answers every request.
OrderNext ==
  \/ \E e \in Entries : \E d \in EntryData(e) : SetupBegin(e, d)
  \/ \E e \in Entries : SetupStatic(e)
  \/ \E e \in Entries : SetupEntity(e)
  \/ \E e \in Entries : \E k \in EntityKinds : Attach(e, k)
  \/ \E x \in Ents : \E new \in EntityStates \cup {NoState} :
        StateChangeWithin(x, new, MaxNotifs)
  \/ \E t \in 1..(MaxNotifs + 1) : LocDone(t)
  \/ \E t \in 1..(MaxNotifs + 1) : TzDone(t)
  \/ \E c \in 1..MaxCalls : ReverseOk(c)
  \/ \E c \in 1..MaxCalls : ReverseError(c)
  \/ \E i \in 1..MaxCalls : LimitRateWake(i)
  \/ Tick

OrderSpec == Init /\ [][OrderNext]_vars

\* The config flow as a function of the user's input.
FlowNext == \E ui \in UserInputs : StepUser(ui)

FlowSpec == Init /\ [][FlowNext]_vars

\* Fairness: the server answers a request in flight, a limit_rate task whose
\* sleep is over runs, time passes, and a task whose await is over resumes.
GeoFairness ==
  /\ WF_vars(\E c \in 1..MaxCalls : ReverseOk(c) \/ ReverseError(c))
  /\ WF_vars(\E i \in 1..MaxCalls : LimitRateWake(i))
  /\ WF_vars(Tick)

FairGeoSpec == GeoSpec /\ GeoFairness

FairSpec ==
  Spec /\ GeoFairness
       /\ WF_vars(\E t \in 1..(MaxEvents + 1) : LocDone(t))
       /\ WF_vars(\E t \in 1..(MaxEvents + 1) : TzDone(t))

--------------------------------------------------------------------------
(* Properties of nominatim.get_location                                    *)

\* C1: at every moment at most one reverse request is in flight, whatever
\* the number of concurrent get_location calls.
C1_AtMostOneInFlight == Cardinality(InFlight) <= 1

\* C1 happens: one call's request is in flight while another call waits for
\* the lock.
C1_Witness ==
  \E c \in InFlight : \E d \in 1..Len(calls) :
     d # c /\ Pending(d) /\ Top(d).st = "acquire"

\* Call c sends a reverse request in this step.
RequestStarts(c) ==
  /\ c \in 1..Len(calls')
  /\ calls'[c].nreq > (IF c <= Len(calls) THEN calls[c].nreq ELSE 0)

\* C2: a reverse request starts only when at least the wait interval of the
\* call whose request ended last (its nom_data.wait, never below
\* INITIAL_WAIT) has elapsed since that request ended, with a result or with
\* an error; and the lock is held while a request is in flight and while a
\* limit_rate task has not yet released it.
C2_WaitBetweenRequests ==
  [][/\ (\E c \in 1..MaxCalls : RequestStarts(c))
          => /\ sinceDone >= lastWait
             /\ lastWait = 0 \/ lastWait >= INITIAL_WAIT
     /\ (timers' # <<>> \/ InFlight' # {}) => locked']_vars

\* C2 happens: an earlier call's request has ended, its limit_rate task has
\* released the lock, and a later call's request went out after the wait.
C2_Witness ==
  \E c \in 1..Len(calls) : \E d \in 1..Len(calls) :
     /\ c < d /\ calls[c].result \in {"value", "none"} /\ calls[c].rel = 1
     /\ calls[d].nreq >= 1 /\ lastWait >= INITIAL_WAIT

\* C3, as stated: a call whose request was answered with a rate-limited
\* response eventually returns to its caller.
C3_RateLimitedCallReturns ==
  \A c \in 1..MaxCalls :
     (c <= Len(calls) /\ calls[c].limited /\ Pending(c))
        ~> (c <= Len(calls) /\ ~Pending(c))

\* C4, as stated: the stored wait never decreases, and after a rate-limited
\* response carrying retry_after r it is the larger of r and the wait stored
\* before.
C4_StoredWaitIsMax ==
  [][/\ wait' >= wait
     /\ nRateLim' > nRateLim => wait' = Max({wait, lastRetry'})]_vars

\* C5: a call whose reverse request failed with another GeopyError has
\* returned None, has no activation left that could send a request, and its
\* limit_rate task holds the lock until it releases it.
C5_ErrorReturnsNone ==
  \A c \in 1..Len(calls) :
     calls[c].error =>
        /\ calls[c].result = "none"
        /\ calls[c].frames = <<>>
        /\ \/ calls[c].rel >= 1
           \/ locked /\ \E i \in DOMAIN timers : timers[i].call = c

\* C5 happens: a call failed, its limit_rate task released the lock, and a
\* later call sent its request.
C5_Witness ==
  \E c \in 1..Len(calls) : \E d \in 1..Len(calls) :
     c < d /\ calls[c].error /\ calls[c].rel = 1 /\ calls[d].nreq >= 1

--------------------------------------------------------------------------
(* Properties of async_setup_entry and update_from_entity                  *)

\* update_from_entity of entry e passed its condition in this step.
Recompute(e) == nnotif'[e] > nnotif[e]

\* A task of entry e is suspended at pc after this step and was not before.
EntersPc(e, pc) ==
  \E t \in 1..Len(tasks') :
     /\ tasks'[t].entry = e /\ tasks'[t].pc = pc
     /\ t > Len(tasks) \/ tasks[t].pc # pc

\* A task of entry e resumes from  await get_loc  in this step.
LeavesLoc(e) ==
  \E t \in 1..Len(tasks) :
     tasks[t].entry = e /\ tasks[t].pc = "loc" /\ tasks'[t].pc # "loc"

\* update_from_entity of entry e reaches  if etzd.tz_users[...]  in this step.
TzDecision(e) == (Recompute(e) /\ ~EntersPc(e, "loc")) \/ LeavesLoc(e)

Sent(e) == bcount'[e] > bcount[e]

\* The decisions of lines 106-113, taken on the counts of the moment.
C6_Decisions ==
  \A e \in Entries :
     /\ (\E c \in 1..Len(calls') : c > Len(calls) /\ calls'[c].owner = e)
           => Recompute(e) /\ loc_available /\ loc_users[e] > 0
     /\ (Recompute(e) /\ loc_users[e] = 0)
           => /\ ~EntersPc(e, "loc")
              /\ Sent(e) => last'[e].loc = NoneV
              /\ \A t \in 1..Len(tasks') :
                    t > Len(tasks) /\ tasks'[t].entry = e => tasks'[t].loc = NoneV
     /\ (TzDecision(e) /\ tz_users[e] = 0)
           => ~EntersPc(e, "tz") /\ Sent(e) /\ last'[e].tz = NoneV

\* No reverse request goes out for a call of an entry whose location
\* consumer count is zero when the request goes out.
C6_NoRequestWithoutConsumers ==
  \A c \in 1..MaxCalls :
     (RequestStarts(c) /\ calls'[c].owner \in Entries)
        => loc_users'[calls'[c].owner] > 0

\* C6, amended: a triggered recompute calls the geocoder only if the entry's
\* location consumer count is positive when it decides, and the time zone
\* lookup only if the time zone consumer count is positive when it decides;
\* otherwise that component of the broadcast is None.  Every get_location
\* call of an entry is started by such a recompute.
C6_LookupOnlyForConsumers == [][C6_Decisions]_vars

\* C6, as stated: in addition no reverse request is ever issued on behalf of
\* an entry that has zero location consumers.
C6_AsStated == [][C6_Decisions /\ C6_NoRequestWithoutConsumers]_vars

\* C6 happens: the geocoder was called for e1 and did not fail, and a later
\* recompute of e1 sent a broadcast with location None.
C6_Witness ==
  /\ \E c \in 1..Len(calls) : calls[c].owner = "e1" /\ calls[c].nreq >= 1
  /\ \A c \in 1..Len(calls) : ~calls[c].error
  /\ last["e1"].seq >= 2 /\ last["e1"].loc = NoneV

\* C7: a notification whose old and new state both exist, have equal
\* latitude and longitude and the same is-home flag starts no lookup and
\* sends no broadcast.
C7_IgnoredNotification ==
  [][\A e \in Entries :
        (heard'[e] > heard[e]) =>
           LET old == states[edata[e].entity_id]
               new == states'[edata[e].entity_id]
           IN (/\ old # NoState /\ new # NoState
               /\ old.lat = new.lat /\ old.lng = new.lng
               /\ (old.state = "home") = (new.state = "home"))
                 => UNCHANGED <<tasks, last, bcount, nnotif, calls, locked,
                                waiters>>]_vars

\* C7 happens: the listener of e1 received an event, and only the first
\* update recomputed.
C7_Witness == heard["e1"] >= 1 /\ nnotif["e1"] = 1 /\ bcount["e1"] = 1

\* C8, as stated: an update started by a notification whose coordinates
\* changed sends its broadcast.
C8_CoordinateChangeBroadcasts ==
  \A t \in 1..(MaxEvents + 1) :
     (t <= Len(tasks) /\ tasks[t].ev = "change" /\ tasks[t].cdiff
        /\ tasks[t].pc \in {"loc", "tz"})
       ~> (t <= Len(tasks) /\ tasks[t].pc = "done")

\* C9, as stated: the first update of an entity-based entry sends its
\* broadcast without any event.
C9_FirstUpdateBroadcasts ==
  \A e \in Entries :
     (phase[e] = "loaded" /\ IsEntity(edata[e])) ~> (bcount[e] >= 1)

\* C10: a static entry has sent nothing before its setup ends and exactly
\* one broadcast, location None with the zone of its data, from then on; it
\* has no listener and no update ever runs for it.
C10_StaticEntry ==
  \A e \in Entries :
     IsStatic(edata[e]) =>
        /\ ~listening[e] /\ nnotif[e] = 0 /\ heard[e] = 0
        /\ phase[e] = "setup" => bcount[e] = 0
        /\ phase[e] = "loaded" =>
              /\ bcount[e] = 1
              /\ last[e].loc = NoneV
              /\ last[e].tz = TzInfo(edata[e].time_zone)

\* C10 happens: a static entry is loaded and state-change events were fired.
C10_Witness ==
  \E e \in Entries :
     IsStatic(edata[e]) /\ phase[e] = "loaded" /\ nEvents = MaxEvents
--------------------------------------------------------------------------
(* Properties of the derived entities and of the entries' life             *)

\* The attached entities of entry e that declare source src.
Declaring(e, src) == {k \in attached[e] : src \in Sources(k)}

Decl(k, src) == IF src \in Sources(k) THEN 1 ELSE 0

\* C12: the step that detaches an entity takes from each counter exactly
\* what the step that attached it added, whatever else is attached.
C12_AttachDetachNetZero ==
  [][\A e \in Entries : \A k \in AllKinds :
        /\ (k \notin attached[e] /\ k \in attached'[e]) =>
              /\ loc_users'[e] = loc_users[e] + Decl(k, "LOC")
              /\ tz_users'[e] = tz_users[e] + Decl(k, "TZ")
        /\ (k \in attached[e] /\ k \notin attached'[e]) =>
              /\ loc_users'[e] = loc_users[e] - Decl(k, "LOC")
              /\ tz_users'[e] = tz_users[e] - Decl(k, "TZ")]_vars

\* C12 happens: entities declaring LOC and TZ were attached (the broadcast
\* carried both values), all entities have been detached again, and both
\* counters are back at zero.
C12_Witness ==
  \E e \in Entries :
     /\ phase[e] \in {"loaded", "unloading"} /\ attached[e] = {}
     /\ last[e].loc # NoneV /\ last[e].tz # NoneV
     /\ loc_users[e] = 0 /\ tz_users[e] = 0
LacksCoords(st) == st # NoState /\ (st.lat = NoVal \/ st.lng = NoVal)

HomePresence(x, st) ==
  Domain(x) \in {"person", "device_tracker"} /\ st.state = "home"

\* C13 (amended): for a state lacking latitude, longitude or both, get_loc
\* returns "unavailable", and get_tz returns "unavailable" unless the entity
\* is a person or device tracker whose state is home, for which it returns
\* the default time zone.
C13_UnavailableWithoutCoordinates ==
  (looked # NoLookup /\ LacksCoords(looked.st)) =>
     /\ looked.loc = [k |-> "imm", v |-> Unavail]
     /\ looked.tz = IF HomePresence(looked.id, looked.st)
                      THEN [k |-> "imm", v |-> TzInfo(DefaultTz)]
                      ELSE [k |-> "imm", v |-> Unavail]

\* C13 as stated: for a state lacking latitude, longitude or both, get_tz and
\* get_loc both return "unavailable", whatever the domain and state string.
C13_AsStated ==
  (looked # NoLookup /\ LacksCoords(looked.st)) =>
     /\ looked.loc = [k |-> "imm", v |-> Unavail]
     /\ looked.tz = [k |-> "imm", v |-> Unavail]

C13_Witness ==
  /\ looked # NoLookup /\ LacksCoords(looked.st)
  /\ looked.id = "device_tracker.c" /\ looked.st.state = "home"
  /\ looked.st.lat = NoVal /\ looked.st.lng # NoVal
  /\ looked.tz.v = TzInfo(DefaultTz)

DependencyUnavailable(e, k) ==
  \/ "LOC" \in DependsOn(k) /\ last[e].loc = Unavail
  \/ "TZ" \in DependsOn(k) /\ last[e].tz = Unavail

\* C15: every attached derived entity, binary sensor or sensor, reports
\* available = false when the last broadcast value of a dependency it relies
\* on is "unavailable", and is available otherwise.
C15_UnavailableDependency ==
  \A e \in Entries : \A k \in attached[e] :
     bcount[e] > 0 => (available(e, k) <=> ~DependencyUnavailable(e, k))

\* C16: whenever an entity depending on the time zone (location) is attached
\* to an entry, the entry's time zone (location) consumer counter is greater
\* than zero.
C16_ConsumersRegistered ==
  \A e \in Entries : \A k \in attached[e] :
     /\ "TZ" \in DependsOn(k) => tz_users[e] > 0
     /\ "LOC" \in DependsOn(k) => loc_users[e] > 0

\* C17: a broadcast on one entry's signal leaves the values stored by the
\* entities of every other entry unchanged.
C17_BroadcastStaysInEntry ==
  [][\A e \in Entries : Sent(e) =>
        \A f \in Entries \ {e} :
           ent_loc'[f] = ent_loc[f] /\ ent_tz'[f] = ent_tz[f]]_vars

C17_Witness ==
  /\ bcount["e1"] = 1 /\ bcount["e2"] = 1
  /\ "diff_time" \in attached["e1"] /\ "diff_time" \in attached["e2"]
  /\ ent_tz["e1"]["diff_time"] = TzInfo("Zone/B")
  /\ ent_tz["e2"]["diff_time"] = Unavail

Quiet == \A r \in 1..Len(zruns) : zruns[r].pc = "done"

\* C14: once update_zones has run and no run is under way, the zone list
\* holds exactly the zones whose time zone, from their current coordinates,
\* differs from the host's.
C14_ZonesExact ==
  ((\E i \in 1..Len(inits) : inits[i].pc = "done") /\ Quiet) =>
     zones = ExactZones

AllOnce ==
  /\ built.data = 1 /\ built.nom = 1 /\ built.tzf = 1
  /\ built.cfg = 1 /\ built.st = 1

\* C18: however many init_etz_data calls are made, overlapping or not, the
\* data object, the time zone index, the geocoder client with its lock and
\* each of the two bus listeners is constructed or registered at most once,
\* and exactly once when a call has run to its end.
C18_InitialisedOnce ==
  /\ built.data <= 1 /\ built.nom <= 1 /\ built.tzf <= 1
  /\ built.cfg <= 1 /\ built.st <= 1
  /\ has_data => (built.data = 1 /\ built.nom = 1)
  /\ (\E i \in 1..Len(inits) : inits[i].pc = "done") => AllOnce

C18_Witness ==
  /\ Len(inits) = 2
  /\ inits[1].pc = "done"
  /\ inits[2].pc = "returned" /\ inits[2].early
  /\ AllOnce

\* C19: the time zone lookups for one rounded coordinate pair query the
\* index at most once.
C19_OneQueryPerKey == \A k \in TzKeys : nquery[k] <= 1

Created == flow # NoFlow /\ flow.result.type = "create_entry"

\* C20 (amended): every entry the config flow creates has data that is
\* either {entity_id} alone or {time_zone} alone, the time zone being the
\* name of a known time zone; and the entries set up elsewhere in this
\* module are entries the flow creates.
C20_OneKeyEntries ==
  /\ Created =>
        \/ DOMAIN flow.result.data = {"entity_id"}
        \/ /\ DOMAIN flow.result.data = {"time_zone"}
           /\ flow.result.data.time_zone \in tzs
  /\ \A e \in Entries : \A d \in EntEntryData(e) :
        \E ui \in UserInputs : async_step_user(ui) = [type |-> "create_entry", data |-> d]

\* C20 as stated: every entry the config flow creates has data that is
\* either {entity_id} alone or {entity_id, time_zone}, so it names a source
\* entity.
C20_AsStated ==
  Created =>
     /\ DOMAIN flow.result.data \in {{"entity_id"}, {"entity_id", "time_zone"}}
     /\ "entity_id" \in DOMAIN flow.result.data

C20_Witness ==
  /\ Created
  /\ DOMAIN flow.input = {"time_zone"} /\ flow.input.time_zone = "b"
  /\ flow.result.data = [time_zone |-> "Zone/B"]

Finished(e) ==
  \A t \in 1..Len(tasks) : tasks[t].entry = e => tasks[t].pc \notin {"loc", "tz"}

\* C21: once all update tasks of an entry have finished, the last broadcast
\* sent by a notification's task is that of the most recent notification
\* that recomputed (the first update has number 1, the notifications follow).
C21_BroadcastsInOrder ==
  \A e \in Entries :
     (Finished(e) /\ last[e].seq > 1) => last[e].seq = nnotif[e]

\* C22: whenever an init_etz_data call has returned, the time zone index
\* with the set of zone names and the zone list are set.
C22_ReturnedMeansInitialised ==
  \A i \in 1..Len(inits) :
     inits[i].pc \in {"returned", "done"} => (built.tzf > 0 /\ built.zset)

\* The acquisitions of the lock by call c (its requests) not yet released.
Unreleased(c) == calls[c].nreq - calls[c].rel

\* C23: every acquisition of the lock by get_location is followed by exactly
\* one release by a limit_rate task: never more releases than acquisitions,
\* never a release of a lock that is not held, and every acquisition is
\* released in the end.
C23_AcquireThenOneRelease ==
  /\ [](~relErr /\ \A c \in 1..MaxCalls : c <= Len(calls) => Unreleased(c) >= 0)
  /\ \A c \in 1..MaxCalls :
        (c <= Len(calls) /\ Unreleased(c) > 0)
           ~> (c <= Len(calls) /\ Unreleased(c) = 0)

\* Both states of the decided event are present and carry the same
\* coordinates.
SameCoords ==
  /\ decided # NoDecision
  /\ decided.old # NoState /\ decided.new # NoState
  /\ decided.old.lat = decided.new.lat /\ decided.old.lng = decided.new.lng

HomeFlip == (decided.old.state = "home") # (decided.new.state = "home")

\* C24: when the old and the new state are both present and the coordinates
\* did not change, the notification makes the entry recompute and broadcast
\* exactly when the entity is a person or a device tracker and exactly one of
\* the two state strings is home; for any other domain a change of the
\* state string alone triggers nothing.
C24_HomeFlipTriggers ==
  SameCoords =>
     (decided.triggers <=>
        (Domain(decided.id) \in {"person", "device_tracker"} /\ HomeFlip))

C24_Witness ==
  /\ SameCoords /\ HomeFlip
  /\ decided.id = "device_tracker.c" /\ decided.new.state = "home"
  /\ decided.old.lat # NoVal
  /\ decided.triggers

\* C25: an attached binary sensor whose declared source holds none is
\* available, and the update it runs in that state leaves its value unknown
\* whatever it was before; it is unavailable only while the source holds
\* "unavailable".
C25_NoneClearsValue ==
  \A e \in Entries : \A k \in attached[e] \cap EntityKinds :
     /\ Dep(e, k) = NoneV => available(e, k)
     /\ ~available(e, k) => Dep(e, k) = Unavail
     /\ is_on[e][k].src = NoneV => is_on[e][k].v = Unknown

C25_Witness ==
  \E e \in Entries :
     /\ "diff_time" \in attached[e]
     /\ bcount[e] > 1 /\ last[e].tz = NoneV
     /\ ent_tz[e]["diff_time"] = NoneV /\ available(e, "diff_time")
     /\ is_on[e]["diff_time"].src = NoneV
     /\ is_on[e]["diff_time"].was = OnOff(TRUE)
     /\ is_on[e]["diff_time"].v = Unknown

\* The step delivers an event of the bus.
EventStep == nzev' = nzev + 1

\* The event just delivered is one update_zones is not to act on: a core
\* configuration update without data, or a state change of a non-zone entity.
Ignorable(ev) ==
  \/ ev.type = "config" /\ ev.empty
  \/ ev.type = "state" /\ Domain(ev.id) # "zone"

\* update_zones has started over all zones as they are after the step:
\* either it has assigned the list already (no zone needs a lookup), or a
\* new run waits for its first lookup with the list built so far.
FullRun ==
  \/ /\ zruns' = zruns /\ tzjobs' = tzjobs
     /\ zones' = ExactZones'
     /\ \A z \in ZoneIds : zstates'[z].lat = NoVal \/ zstates'[z].lng = NoVal
  \/ /\ Len(zruns') = Len(zruns) + 1
     /\ Len(tzjobs') = Len(tzjobs) + 1
     /\ LET run == zruns'[Len(zruns')]
        IN /\ run.pc = "job" /\ run.owner = 0 /\ run.snap = zstates'
           /\ run.job = Len(tzjobs')
           /\ run.acc = {ZoneOrder[n] : n \in 1..(run.i - 1)} \cap ExactZones'
           /\ tzjobs'[run.job].key = TzKey(zstates'[ZoneOrder[run.i]])

\* C26: a core configuration update event without data leaves the zone list
\* unchanged and starts no time zone lookup, and so does the state change of
\* an entity that is not a zone, which never reaches update_zones; a
\* configuration update with data and every state change of a zone, once the
\* listeners are registered, start update_zones over all zones.
C26_ZoneEvents ==
  [][EventStep =>
       /\ Ignorable(lastev') =>
             /\ zones' = zones /\ zruns' = zruns
             /\ tzjobs' = tzjobs /\ nquery' = nquery /\ tzcache' = tzcache
       /\ (lastev'.heard /\ ~Ignorable(lastev')) => FullRun]_vars

C26_Witness ==
  /\ lastev.type = "config" /\ lastev.empty /\ lastev.heard
  /\ nzev = MaxZoneEvents
  /\ zones # {} /\ zones = ExactZones /\ Quiet

====
